---- MODULE Spec2Model ----
(***************************************************************************)
(* A model of the representation-learning engine of il-representations:   *)
(* the negative queue of QueueBatchExtender (algos/batch_extenders.py),   *)
(* the momentum-updated projection heads, the projection head and the     *)
(* decoders that take an extra context (algos/decoders.py), and the       *)
(* constructor, the epoch loop, the training step and the kwargs          *)
(* validation of RepresentationLearner (algos/representation_learner.py). *)
(* Each component has a specification of its own over the shared          *)
(* variables, the others held idle.                                       *)
(*                                                                         *)
(* Tensors are functions over 0..n-1 (Python indices).  A row of a        *)
(* distribution is a (loc, scale) pair of numbers; the rows handed to the *)
(* queue are numbered in the order they are seen, so every row is         *)
(* distinguishable from every other row and from the initial contents.    *)
(***************************************************************************)
EXTENDS Integers, Sequences, FiniteSets, TLC

\* Bounds of the model.
MaxQueueSize == 4
MaxCalls == 5
NParams == 2
WeightSteps == 2
MaxTargetCalls == 3
MaxOptSteps == 2
MaxEpochs == 2
MaxBatches == 3
MaxInterval == 2
MaxLearnCalls == 2
MaxDim == 3
MaxDecodeCalls == 2

VARIABLES
    \* QueueBatchExtender fields (batch_extenders.py:31-36)
    queue_size, queue_loc, queue_scale, queue_ptr,
    \* the input stream: how many target rows have been handed to __call__
    n_seen,
    \* the batch sizes of the __call__s made so far, in order
    sizes,
    \* how many of those raised
    n_raised,
    \* per queue slot, how many times __call__ has written it
    overwrites,
    \* the last __call__: arguments, pre-call queue, outcome, return value
    call

qvars == <<queue_size, queue_loc, queue_scale, queue_ptr, n_seen, sizes,
           n_raised, overwrites, call>>

VARIABLES
    \* which head the decoder is: "Momentum" (MomentumProjectionHead) or
    \* "BYOL" (BYOLProjectionHead)
    head,
    \* MomentumProjectionHead.momentum_weight, a rational
    momentum_weight,
    \* the parameter values of context_decoder (online) and target_decoder
    context_decoder, target_decoder,
    \* param.requires_grad, per parameter of the encoder and the decoder
    requires_grad,
    \* the parameters the optimizer was constructed over
    opt_params,
    \* the parameters whose .grad is populated
    has_grad,
    \* the last results of decode_context and decode_target
    out_ctx, out_tgt,
    \* the last operation, with the parameter values it started from
    ev,
    \* how many EMA updates and optimizer steps have run
    n_ema, n_steps

mvars == <<head, momentum_weight, context_decoder, target_decoder,
           requires_grad, opt_params, has_grad, out_ctx, out_tgt, ev,
           n_ema, n_steps>>

VARIABLES
    \* RepresentationLearner configuration (representation_learner.py:74-80,
    \* 113-116) and the dataset handed to learn()
    n_batches, shuffle_batches, unit_test_max_train_steps, save_interval,
    has_scheduler, preprocess_extra_context, ctx_tensor, raw_extra,
    \* where learn() is: "idle", "epoch_top", "steps", "epoch_end",
    \* "returned", "raised"
    pc,
    \* learn()'s argument and locals
    training_epochs, epoch, step, global_step, loss_meter, loss_record,
    \* the order in which the for loop's iterator (enumerate(dataloader)) and
    \* dataiter yield the batches in this epoch
    loop_order, dataiter_order,
    \* the batches the two iterators have yielded in this epoch, in order:
    \* which iterator, which batch, and whether a training step used it
    fetched,
    \* encoder / decoder mode: "train" or "eval"
    mode,
    \* optimizer.step() calls in this epoch
    n_updates,
    \* per checkpoint path, how many times it has been written
    ckpt_writes,
    \* the learn() calls made, and one record per epoch this call finished
    n_learn_calls, history,
    \* the last training step: its stages in order and what flowed through
    last_step

lvars == <<n_batches, shuffle_batches, unit_test_max_train_steps,
           save_interval, has_scheduler, preprocess_extra_context, ctx_tensor,
           raw_extra, pc, training_epochs, epoch, step, global_step,
           loss_meter, loss_record, loop_order, dataiter_order, mode,
           n_updates, ckpt_writes, n_learn_calls, history,
           last_step, fetched>>

VARIABLES
    \* the decoder under call: its class and constructor arguments
    \* (decoders.py:33-37, 156-169, 210-212, 322-333)
    decoder_class, sample, action_representation_dim, learn_scale,
    constant_stddev, param_mappings,
    \* the last decode_context / decode_target call and its outcome
    dec_call, n_dec_calls

dvars == <<decoder_class, sample, action_representation_dim, learn_scale,
           constant_stddev, param_mappings, dec_call, n_dec_calls>>

VARIABLES
    \* the arguments of validate_and_update_kwargs
    \* (representation_learner.py:119-120) and its outcome
    user_kwargs, kwargs_updates, params_cleaned, kwargs_result,
    \* the dict objects of that call: per object, its contents now; and the
    \* object the call returned
    kwargs_heap, kwargs_ret

kvars == <<user_kwargs, kwargs_updates, params_cleaned, kwargs_result,
           kwargs_heap, kwargs_ret>>

VARIABLES
    \* the arguments of RepresentationLearner.__init__ that reach the batch
    \* extender (representation_learner.py:44-60): the extender class, the
    \* object passed as batch_extender_kwargs ("None" or the caller's dict)
    \* and the two dimensions (0 for None)
    batch_extender, batch_extender_kwargs, representation_dim, projection_dim,
    \* the dict objects: the caller's and the one a {} literal creates, each
    \* with its contents now; and the caller's at the time of the call
    ctor_heap, caller_dict0,
    \* where __init__ is ("start", "constructed", "raised"), the exception it
    \* raised and self.batch_extender
    ctor_pc, ctor_error, self_batch_extender

cvars == <<batch_extender, batch_extender_kwargs, representation_dim,
           projection_dim, ctor_heap, caller_dict0, ctor_pc, ctor_error,
           self_batch_extender>>

----------------------------------------------------------------------------
\* Tensor helpers.

Size0(t) == Cardinality(DOMAIN t)

Empty0 == [i \in {} |-> 0]

\* torch.cat([a, b], dim=0)
Cat0(a, b) ==
    [i \in 0..(Size0(a) + Size0(b) - 1) |->
        IF i < Size0(a) THEN a[i] ELSE b[i - Size0(a)]]

\* The indices t[start:stop] selects in a tensor of n rows (0 <= start <= stop):
\* Python clamps stop to n.
SliceIndices(n, start, stop) == {i \in 0..(n - 1) : start <= i /\ i < stop}

\* t[start:stop] = v is accepted when v has as many rows as the slice, or one
\* row (broadcast); any other shape raises RuntimeError and writes nothing.
SliceAssignFits(n, start, stop, m) ==
    Cardinality(SliceIndices(n, start, stop)) = m \/ m = 1

SliceAssign(t, start, stop, v) ==
    [i \in DOMAIN t |->
        IF i \in SliceIndices(Size0(t), start, stop)
        THEN (IF Size0(v) = 1 THEN v[0] ELSE v[i - start])
        ELSE t[i]]

----------------------------------------------------------------------------
\* The rows.  The n-th row seen (n >= 1) has loc 2n-1 and scale 2n; slot i of a
\* fresh queue holds the initial (torch.randn) values: loc -(2i+1), and a
\* scale of either sign, -(2i+2) or 2i+2.

TargetLoc(n) == 2 * n - 1
TargetScale(n) == 2 * n
InitLoc(i) == 0 - (2 * i + 1)
InitScale(i) == 0 - (2 * i + 2)
InitScales(i) == {InitScale(i), 0 - InitScale(i)}

\* batch_extenders.py:35: the tensors torch.randn can give queue_scale, by
\* the set of slots that come out positive
InitScaleTensors(size) ==
    {[i \in 0..(size - 1) |-> IF i \in pos THEN 0 - InitScale(i) ELSE InitScale(i)] :
        pos \in SUBSET (0..(size - 1))}

\* The context distribution handed to the c-th call.
ContextOf(c) == <<"context", c>>

----------------------------------------------------------------------------
\* QueueBatchExtender

QueueSnapshotAliased(before, after) == after

\* batch_extenders.py:44-45: queue.clone().detach(), taken before the write
QueueSnapshot(before, after) == before

AdvancePtrNoWrap(ptr, batch_size, size) == ptr + batch_size

\* batch_extenders.py:48
AdvancePtr(ptr, batch_size, size) == (ptr + batch_size) % size

NoCall ==
    [status |-> "none", batch_size |-> 0, ptr0 |-> 0,
     loc0 |-> Empty0, scale0 |-> Empty0,
     targets_loc |-> Empty0, targets_scale |-> Empty0,
     context |-> <<"context", 0>>, written |-> {},
     ret_context |-> <<"context", 0>>,
     merged_loc |-> Empty0, merged_scale |-> Empty0]

\* QueueBatchExtender.__init__
QueueInit ==
    /\ queue_size \in 1..MaxQueueSize
    /\ queue_loc = [i \in 0..(queue_size - 1) |-> InitLoc(i)]
    /\ queue_scale \in InitScaleTensors(queue_size)
    /\ queue_ptr = 0
    /\ n_seen = 0
    /\ sizes = <<>>
    /\ n_raised = 0
    /\ overwrites = [i \in 0..(queue_size - 1) |-> 0]
    /\ call = NoCall

\* QueueBatchExtender.__call__ on a target distribution of batch_size rows
QueueCall(batch_size) ==
    LET targets_loc == [i \in 0..(batch_size - 1) |-> TargetLoc(n_seen + i + 1)]
        targets_scale == [i \in 0..(batch_size - 1) |-> TargetScale(n_seen + i + 1)]
        context == ContextOf(Len(sizes) + 1)
        stop == queue_ptr + batch_size
        fits == SliceAssignFits(queue_size, queue_ptr, stop, batch_size)
        slots == SliceIndices(queue_size, queue_ptr, stop)
        new_loc == SliceAssign(queue_loc, queue_ptr, stop, targets_loc)
        new_scale == SliceAssign(queue_scale, queue_ptr, stop, targets_scale)
        queue_targets_scale == QueueSnapshot(queue_scale, new_scale)
        queue_targets_loc == QueueSnapshot(queue_loc, new_loc)
        args == [batch_size |-> batch_size, ptr0 |-> queue_ptr,
                 loc0 |-> queue_loc, scale0 |-> queue_scale,
                 targets_loc |-> targets_loc, targets_scale |-> targets_scale,
                 context |-> context]
    IN  /\ Len(sizes) < MaxCalls
        /\ n_seen' = n_seen + batch_size
        /\ sizes' = Append(sizes, batch_size)
        /\ UNCHANGED queue_size
        /\ IF fits
           THEN /\ queue_loc' = new_loc
                /\ queue_scale' = new_scale
                /\ queue_ptr' = AdvancePtr(queue_ptr, batch_size, queue_size)
                /\ overwrites' = [i \in DOMAIN overwrites |->
                                    IF i \in slots THEN overwrites[i] + 1
                                    ELSE overwrites[i]]
                /\ n_raised' = n_raised
                /\ call' = args @@
                     [status |-> "returned", written |-> slots,
                      ret_context |-> context,
                      merged_loc |-> Cat0(targets_loc, queue_targets_loc),
                      merged_scale |-> Cat0(targets_scale, queue_targets_scale)]
           ELSE \* line 46 raises RuntimeError before anything is written
                /\ UNCHANGED <<queue_loc, queue_scale, queue_ptr, overwrites>>
                /\ n_raised' = n_raised + 1
                /\ call' = args @@
                     [status |-> "raised", written |-> {},
                      ret_context |-> NoCall.ret_context,
                      merged_loc |-> Empty0, merged_scale |-> Empty0]

Extend == \E batch_size \in 1..queue_size : QueueCall(batch_size)

\* No extender constructed (the specifications of the other components).
QueueIdle ==
    /\ queue_size = 0
    /\ queue_loc = Empty0
    /\ queue_scale = Empty0
    /\ queue_ptr = 0
    /\ n_seen = 0
    /\ sizes = <<>>
    /\ n_raised = 0
    /\ overwrites = Empty0
    /\ call = NoCall

----------------------------------------------------------------------------
\* Exact rational arithmetic for parameter values and the momentum weight:
\* [n |-> numerator, d |-> denominator > 0] in lowest terms.

Abs(x) == IF x < 0 THEN 0 - x ELSE x

RECURSIVE GCD(_, _)
GCD(a, b) == IF b = 0 THEN a ELSE GCD(b, a % b)

Rat(n, d) == LET g == GCD(Abs(n), d) IN [n |-> n \div g, d |-> d \div g]

RatAdd(x, y) == Rat(x.n * y.d + y.n * x.d, x.d * y.d)

RatSub(x, y) == Rat(x.n * y.d - y.n * x.d, x.d * y.d)

RatMul(x, y) == Rat(x.n * y.n, x.d * y.d)

RatOne == Rat(1, 1)

RatZero == Rat(0, 1)

----------------------------------------------------------------------------
\* MomentumProjectionHead and BYOLProjectionHead

Heads == {"Momentum", "BYOL"}

\* The encoded inputs handed to the decoder.
Inputs == {1, 2}

\* The parameter shift one optimizer step applies to a parameter with a gradient.
Deltas == {0 - 1, 1}

ParamIdx == 1..NParams

OnlineParams == {<<"context_decoder", i>> : i \in ParamIdx}
TargetParams == {<<"target_decoder", i>> : i \in ParamIdx}
PredictorParams == {<<"context_predictor", i>> : i \in ParamIdx}
EncoderParams == {<<"encoder", 1>>}

\* decoder.parameters(): BYOLProjectionHead adds context_predictor
DecoderParams(h) ==
    OnlineParams \cup TargetParams \cup
        (IF h = "BYOL" THEN PredictorParams ELSE {})

\* The value the i-th parameter of a freshly built ProjectionHead holds.
InitParam(i) == Rat(i, 1)

FreezeNothing(rg) == rg

\* decoders.py:107-108: every parameter of target_decoder stops requiring grad
FreezeTarget(rg) ==
    [p \in DOMAIN rg |-> IF p \in TargetParams THEN FALSE ELSE rg[p]]

\* representation_learner.py:108-111: the optimizer takes the parameters of the
\* encoder and of the decoder that require grad
TrainableParams(h, rg) ==
    {p \in EncoderParams \cup DecoderParams(h) : rg[p]}

EmaSkipped(param_k, param_q, m) == param_k

EmaSwapped(param_k, param_q, m) ==
    RatAdd(RatMul(param_k, RatSub(RatOne, m)), RatMul(param_q, m))

\* decoders.py:130: param_k * m + param_q * (1 - m)
Ema(param_k, param_q, m) ==
    RatAdd(RatMul(param_k, m), RatMul(param_q, RatSub(RatOne, m)))

MomentumUpdateReversedPairs(q, k, m) ==
    [i \in DOMAIN k |-> Ema(k[i], q[NParams + 1 - i], m)]

\* decoders.py:127-130 _momentum_update_key_encoder: zip pairs the parameters
\* of the two heads in order
MomentumUpdate(q, k, m) == [i \in DOMAIN k |-> Ema(k[i], q[i], m)]

\* What a decode call has not yet returned.
NoOut == [status |-> "none", path |-> <<>>, std |-> <<>>,
          params |-> <<>>, z |-> 0, graph |-> {}]

\* decoders.py:94-98 ProjectionHead.forward of the head named net, holding
\* params, on input z: the mean is mean_layer(shared_mlp(z)) and the stddev is
\* exp(scale_layer(.)), scale_layer being the all-ones vector (learn_scale is
\* False).  With grad enabled the result depends on the encoder's parameters
\* (through z) and on those of net that require grad.
ProjectionForward(net, params, z, grad_enabled, rg) ==
    [status |-> "returned", path |-> <<net>>, std |-> <<"ones", "exp">>,
     params |-> params, z |-> z,
     graph |-> IF grad_enabled
               THEN {p \in EncoderParams \cup {<<net, i>> : i \in ParamIdx} : rg[p]}
               ELSE {}]

\* tensor.detach()
Detach(out) == [out EXCEPT !.graph = {}]

\* decoders.py:111-112 MomentumProjectionHead.decode_context.  BYOLProjectionHead
\* does not override it, so this is also the decode_context of the BYOL head:
\* BYOLProjectionHead.forward (lines 139-143, the only code that applies
\* context_predictor and normalizes the context mean) is not on this path.
DecodeContextOut(h, online, z, rg) ==
    ProjectionForward("context_decoder", online, z, TRUE, rg)

TargetParamsForForwardStale(before, after) == before

\* decoders.py:122-123: the forward pass runs after _momentum_update_key_encoder
TargetParamsForForward(before, after) == after

\* decoders.py:114-125 MomentumProjectionHead.decode_target, given the target
\* parameters before and after the EMA update of this call
MomentumDecodeTargetOut(before, after, z, rg) ==
    Detach(ProjectionForward("target_decoder",
                             TargetParamsForForward(before, after), z, FALSE, rg))

\* decoders.py:145-149 BYOLProjectionHead.decode_target: the mean is
\* normalized, the stddev argument is prediction_dist.variance
ByolDecodeTargetOut(before, after, z, rg) ==
    LET prediction_dist == MomentumDecodeTargetOut(before, after, z, rg)
    IN  [prediction_dist EXCEPT
            !.path = Append(prediction_dist.path, "normalize"),
            !.std = Append(prediction_dist.std, "square")]

DecodeTargetOut(h, before, after, z, rg) ==
    IF h = "BYOL" THEN ByolDecodeTargetOut(before, after, z, rg)
    ELSE MomentumDecodeTargetOut(before, after, z, rg)

DeepCopyReinitialized(params) ==
    [i \in DOMAIN params |-> RatAdd(params[i], RatOne)]

\* decoders.py:106 copy.deepcopy(self.context_decoder)
DeepCopy(params) == params

Event(op) == [op |-> op, online0 |-> context_decoder,
              target0 |-> target_decoder, n_ema0 |-> n_ema]

\* MomentumProjectionHead.__init__ / BYOLProjectionHead.__init__, then the
\* optimizer construction of RepresentationLearner.__init__
MomentumInit ==
    /\ head \in Heads
    /\ momentum_weight \in {Rat(w, WeightSteps) : w \in 0..WeightSteps}
    /\ context_decoder = [i \in ParamIdx |-> InitParam(i)]
    /\ target_decoder = DeepCopy(context_decoder)
    /\ requires_grad =
          FreezeTarget([p \in EncoderParams \cup DecoderParams(head) |-> TRUE])
    /\ opt_params = TrainableParams(head, requires_grad)
    /\ has_grad = {}
    /\ out_ctx = NoOut
    /\ out_tgt = NoOut
    /\ ev = [op |-> "init", online0 |-> context_decoder,
             target0 |-> target_decoder, n_ema0 |-> 0]
    /\ n_ema = 0
    /\ n_steps = 0

\* decoder.decode_context(z, traj_info, extra_context)
DecodeContext ==
    \E z \in Inputs :
        /\ out_ctx' = DecodeContextOut(head, context_decoder, z, requires_grad)
        /\ ev' = Event("decode_context")
        /\ UNCHANGED <<head, momentum_weight, context_decoder, target_decoder,
                       requires_grad, opt_params, has_grad, out_tgt, n_ema,
                       n_steps>>

\* decoder.decode_target(z, traj_info, extra_context)
DecodeTarget ==
    \E z \in Inputs :
        /\ n_ema < MaxTargetCalls
        /\ target_decoder' =
              MomentumUpdate(context_decoder, target_decoder, momentum_weight)
        /\ n_ema' = n_ema + 1
        /\ out_tgt' = DecodeTargetOut(head, target_decoder, target_decoder', z,
                                      requires_grad)
        /\ ev' = Event("decode_target")
        /\ UNCHANGED <<head, momentum_weight, context_decoder, requires_grad,
                       opt_params, has_grad, out_ctx, n_steps>>

\* representation_learner.py:263-268: the loss of the last decoded context and
\* target, optimizer.zero_grad(), loss.backward(): the parameters the loss
\* depends on get their gradient
Backward ==
    /\ out_ctx.status = "returned"
    /\ out_tgt.status = "returned"
    /\ out_ctx.graph \cup out_tgt.graph # {}
    /\ has_grad' = (has_grad \ opt_params) \cup out_ctx.graph \cup out_tgt.graph
    /\ ev' = Event("backward")
    /\ UNCHANGED <<head, momentum_weight, context_decoder, target_decoder,
                   requires_grad, opt_params, out_ctx, out_tgt, n_ema, n_steps>>

Stepped(net, vals, d) ==
    [i \in DOMAIN vals |->
        IF <<net, i>> \in opt_params \cap has_grad
        THEN RatAdd(vals[i], Rat(d, 1)) ELSE vals[i]]

\* representation_learner.py:269 optimizer.step(): every parameter of the
\* optimizer that has a gradient moves
OptimizerStep ==
    \E d \in Deltas :
        /\ n_steps < MaxOptSteps
        /\ context_decoder' = Stepped("context_decoder", context_decoder, d)
        /\ target_decoder' = Stepped("target_decoder", target_decoder, d)
        /\ n_steps' = n_steps + 1
        /\ ev' = Event("step")
        /\ UNCHANGED <<head, momentum_weight, requires_grad, opt_params,
                       has_grad, out_ctx, out_tgt, n_ema>>

\* No momentum head constructed (the specifications of the other components).
MomentumIdle ==
    /\ head = "none"
    /\ momentum_weight = RatOne
    /\ context_decoder = <<>>
    /\ target_decoder = <<>>
    /\ requires_grad = <<>>
    /\ opt_params = {}
    /\ has_grad = {}
    /\ out_ctx = NoOut
    /\ out_tgt = NoOut
    /\ ev = [op |-> "none", online0 |-> <<>>, target0 |-> <<>>, n_ema0 |-> 0]
    /\ n_ema = 0
    /\ n_steps = 0

----------------------------------------------------------------------------
\* RepresentationLearner: tensors and the stages of one training step

\* A value flowing through a step: a tensor of some shape and dtype cut from
\* batch number `batch`, with the stages applied to it so far; None; or the
\* empty list that stands for "no extra context" in a collated batch.
Tensor(shape, dtype, b) ==
    [kind |-> "tensor", shape |-> shape, dtype |-> dtype, batch |-> b, ops |-> <<>>]

NoneValue ==
    [kind |-> "none", shape |-> <<>>, dtype |-> "none", batch |-> 0, ops |-> <<>>]

EmptyList ==
    [kind |-> "empty", shape |-> <<>>, dtype |-> "none", batch |-> 0, ops |-> <<>>]

\* A stage applied to a tensor (None stays None).
Op(t, name) ==
    IF t.kind = "tensor" THEN [t EXCEPT !.ops = Append(t.ops, name)] ELSE t

FloatDtypes == {"float64", "float32", "float16"}

IsNchwAlsoEqual(shape) == shape[2] <= shape[3] /\ shape[2] <= shape[4]

\* representation_learner.py:166-168, on (N, A, B, C) = shape[1..4]
IsNchwHeuristic(shape) == shape[2] < shape[3] /\ shape[2] < shape[4]

\* representation_learner.py:149-181 _prep_tensors: None is returned as is; an
\* empty list cannot be stacked (torch.stack raises); a 4-dimensional tensor
\* that fails the NCHW heuristic raises ValueError; otherwise the tensor is
\* moved to the device, floating dtypes cast to float32, the shape kept.
PrepTensors(t) ==
    IF t.kind = "none" THEN [raised |-> FALSE, value |-> t]
    ELSE IF t.kind = "empty" THEN [raised |-> TRUE, value |-> t]
    ELSE IF Len(t.shape) = 4 /\ ~IsNchwHeuristic(t.shape)
    THEN [raised |-> TRUE, value |-> t]
    ELSE [raised |-> FALSE,
          value |-> Op([t EXCEPT !.dtype = IF t.dtype \in FloatDtypes
                                           THEN "float32" ELSE t.dtype],
                       "prep")]

UnpackExtraKeepEmpty(extra) == extra

\* representation_learner.py:201-204 unpack_batch: an extra_context of length 0
\* becomes None
UnpackExtra(extra) ==
    IF extra.kind = "empty" \/ (extra.kind = "tensor" /\ extra.shape[1] = 0)
    THEN NoneValue ELSE extra

\* representation_learner.py:188-191
PreprocessExtraContext(extra, flag) ==
    IF extra.kind = "none" \/ ~flag THEN extra ELSE Op(extra, "preprocess")

\* encoder.encode_extra_context: passes an absent extra context through
EncodeExtraContext(extra) == Op(extra, "encode_extra_context")

StagesStepBeforeBackward ==
    <<"fetch", "unpack_batch", "prep_tensors", "preprocess", "augment",
      "preprocess_extra_context", "encode_context", "encode_target",
      "encode_extra_context", "decode_context", "decode_target",
      "batch_extend", "loss", "loss_meter_update", "zero_grad",
      "optimizer_step", "backward", "log">>

\* representation_learner.py:231-273: the calls of one loop iteration, in order
Stages ==
    <<"fetch", "unpack_batch", "prep_tensors", "preprocess", "augment",
      "preprocess_extra_context", "encode_context", "encode_target",
      "encode_extra_context", "decode_context", "decode_target",
      "batch_extend", "loss", "loss_meter_update", "zero_grad", "backward",
      "optimizer_step", "log">>

NoStep ==
    [batch |-> 0, raised |-> FALSE, stages |-> <<>>,
     contexts |-> NoneValue, targets |-> NoneValue,
     extra_raw |-> NoneValue, extra_unpacked |-> NoneValue,
     extra_prepped |-> NoneValue, extra_preprocessed |-> NoneValue,
     extra_encoded |-> NoneValue, decoder_extra |-> NoneValue,
     loss_contexts |-> NoneValue, loss_targets |-> NoneValue,
     loss_encoded |-> NoneValue]

\* representation_learner.py:231-273 on batch b of the dataset: what each
\* stage hands to the next, up to the first stage that raises
StepRun(b, ctx, raw, flag) ==
    LET contexts0 == [ctx EXCEPT !.batch = b]
        targets0 == [ctx EXCEPT !.batch = b]
        traj_ts_info0 == Tensor(<<ctx.shape[1]>>, "int64", b)
        extra_raw == IF raw.kind = "tensor" THEN [raw EXCEPT !.batch = b] ELSE raw
        extra0 == UnpackExtra(extra_raw)
        pc_ == PrepTensors(contexts0)
        pt_ == PrepTensors(targets0)
        pe_ == PrepTensors(extra0)
        pi_ == PrepTensors(traj_ts_info0)
        contexts == Op(Op(pc_.value, "preprocess"), "augment")
        targets == Op(Op(pt_.value, "preprocess"), "augment")
        extra2 == PreprocessExtraContext(pe_.value, flag)
        encoded_contexts == Op(contexts, "encode_context")
        encoded_targets == Op(targets, "encode_target")
        extra3 == EncodeExtraContext(extra2)
        decoded_contexts == Op(encoded_contexts, "decode_context")
        decoded_targets == Op(encoded_targets, "decode_target")
    IN  IF pc_.raised \/ pt_.raised \/ pe_.raised \/ pi_.raised
        THEN [NoStep EXCEPT !.batch = b, !.raised = TRUE,
                            !.stages = SubSeq(Stages, 1, 3),
                            !.contexts = pc_.value, !.targets = pt_.value,
                            !.extra_raw = extra_raw, !.extra_unpacked = extra0]
        ELSE [batch |-> b, raised |-> FALSE, stages |-> Stages,
              contexts |-> pc_.value, targets |-> pt_.value,
              extra_raw |-> extra_raw, extra_unpacked |-> extra0,
              extra_prepped |-> pe_.value, extra_preprocessed |-> extra2,
              extra_encoded |-> extra3, decoder_extra |-> extra3,
              loss_contexts |-> Op(decoded_contexts, "batch_extend"),
              loss_targets |-> Op(decoded_targets, "batch_extend"),
              loss_encoded |-> encoded_contexts]

----------------------------------------------------------------------------
\* RepresentationLearner.learn: the epoch loop

\* unit_test_max_train_steps: None, or a number
NoCap == [some |-> FALSE, val |-> 0]

Cap(c) == [some |-> TRUE, val |-> c]

CapReachedStrict(s, cap) == cap.some /\ s > cap.val

\* representation_learner.py:276-277
CapReached(s, cap) == cap.some /\ s >= cap.val

EpochsRemainInclusive(e, n) == e <= n

\* representation_learner.py:220 range(training_epochs)
EpochsRemain(e, n) == e < n

SaveDueAfter(e, interval) == (e + 1) % interval = 0

\* representation_learner.py:290
SaveDue(e, interval) == e % interval = 0

CkptKinds == {"representation_encoder", "loss_decoder"}

\* The checkpoint files: <directory, epoch> names
\* checkpoints/<directory>/<epoch>_epochs.ckpt
\* (representation_learner.py:68-70, 291-292)
CkptPaths == CkptKinds \X (0..(MaxEpochs - 1))

\* representation_learner.py:291-292: the two files written at the end of
\* epoch e, whichever learn() call this is
SavePaths(e) == {<<k, e>> : k \in CkptKinds}

\* The orders a DataLoader over n batches can yield them in
\* (representation_learner.py:216): the dataset order without shuffling; with
\* shuffling a permutation, drawn here from the rotations of the dataset order.
Orders(n, shuffle) ==
    IF shuffle
    THEN {[i \in 1..n |-> ((i - 1 + r) % n) + 1] : r \in 0..(n - 1)}
    ELSE {[i \in 1..n |-> i]}

\* The loss of a step, a number that differs from batch to batch
LossOf(b) == b

NewMeter == [sum |-> 0, count |-> 0]

\* AverageMeter.update / AverageMeter.avg (il_representations/algos/utils.py):
\* the running mean of the values given to update
MeterUpdate(m, val) == [sum |-> m.sum + val, count |-> m.count + 1]

MeterAvg(m) == IF m.count = 0 THEN RatZero ELSE Rat(m.sum, m.count)

\* A batch an iterator yielded: src is "loop" for the for loop's
\* enumerate(dataloader) and "dataiter" for iter(dataloader)
Fetch(src, b) == [src |-> src, batch |-> b]

ProcessedBatchFromLoop(a, b) == a

\* representation_learner.py:228-231: the loop's own batch a is replaced by
\* next(dataiter) = b before anything reads it
ProcessedBatch(a, b) == b

\* representation_learner.py:281-292: the calls at the end of an epoch, in order
EpochEndOps(sched, due) ==
    (IF sched THEN <<"scheduler_step">> ELSE <<>>)
        \o <<"append_loss", "eval">>
        \o (IF due THEN <<"save_encoder", "save_decoder">> ELSE <<>>)

LearnState0 ==
    /\ pc = "idle"
    /\ training_epochs = 0
    /\ epoch = 0
    /\ step = 0
    /\ global_step = 0
    /\ loss_meter = NewMeter
    /\ loss_record = <<>>
    /\ loop_order = <<>>
    /\ dataiter_order = <<>>
    /\ mode = "train"
    /\ n_updates = 0
    /\ ckpt_writes = [p \in CkptPaths |-> 0]
    /\ n_learn_calls = 0
    /\ history = <<>>
    /\ last_step = NoStep
    /\ fetched = <<>>

GoodImages == Tensor(<<2, 1, 2, 2>>, "float32", 0)

\* A learner whose dataset is well-formed images without extra context, over
\* every loop configuration of __init__ (representation_learner.py:75-80, 113-116)
LearnInit ==
    /\ n_batches \in 1..MaxBatches
    /\ shuffle_batches \in BOOLEAN
    /\ unit_test_max_train_steps \in {NoCap} \cup {Cap(c) : c \in 0..(MaxBatches + 1)}
    /\ save_interval \in 1..MaxInterval
    /\ has_scheduler \in BOOLEAN
    /\ preprocess_extra_context = TRUE
    /\ ctx_tensor = GoodImages
    /\ raw_extra = EmptyList
    /\ LearnState0

\* representation_learner.py:206-219: learn(dataset, training_epochs) is called
\* on an engine that is not inside learn()
CallLearn ==
    /\ pc \in {"idle", "returned"}
    /\ n_learn_calls < MaxLearnCalls
    /\ \E te \in 0..MaxEpochs : training_epochs' = te
    /\ n_learn_calls' = n_learn_calls + 1
    /\ epoch' = 0
    /\ loss_record' = <<>>
    /\ global_step' = 0
    /\ history' = <<>>
    /\ pc' = "epoch_top"
    /\ UNCHANGED <<n_batches, shuffle_batches, unit_test_max_train_steps,
                   save_interval, has_scheduler, preprocess_extra_context,
                   ctx_tensor, raw_extra, step, loss_meter, loop_order,
                   dataiter_order, mode, n_updates, ckpt_writes,
                   last_step, fetched>>

\* representation_learner.py:220-228: the head of the epoch loop; after the
\* last epoch, line 294 returns loss_record
EpochTop ==
    /\ pc = "epoch_top"
    /\ IF EpochsRemain(epoch, training_epochs)
       THEN /\ loss_meter' = NewMeter
            /\ dataiter_order' \in Orders(n_batches, shuffle_batches)
            /\ loop_order' \in Orders(n_batches, shuffle_batches)
            /\ mode' = "train"
            /\ step' = 0
            /\ n_updates' = 0
            /\ pc' = "steps"
            /\ UNCHANGED last_step
       ELSE \* the locals of learn() end with the call
            /\ pc' = "returned"
            /\ loss_meter' = NewMeter
            /\ dataiter_order' = <<>>
            /\ loop_order' = <<>>
            /\ step' = 0
            /\ n_updates' = 0
            /\ last_step' = NoStep
            /\ UNCHANGED mode
    /\ fetched' = <<>>
    /\ UNCHANGED <<n_batches, shuffle_batches, unit_test_max_train_steps,
                   save_interval, has_scheduler, preprocess_extra_context,
                   ctx_tensor, raw_extra, training_epochs, epoch, global_step,
                   loss_record, ckpt_writes, n_learn_calls, history>>

\* representation_learner.py:228: the loop's iterator has a batch to yield
LoopHasNext == pc = "steps" /\ step < n_batches

\* representation_learner.py:228, 279: the loop was left by the break, or its
\* iterator is exhausted
LoopLeft == pc = "epoch_end" \/ (pc = "steps" /\ step >= n_batches)

\* representation_learner.py:228-279: one iteration of the step loop
TrainStep ==
    /\ LoopHasNext
    /\ LET from_loop == Fetch("loop", loop_order[step + 1])
           from_dataiter == Fetch("dataiter", dataiter_order[step + 1])
           taken == ProcessedBatch(from_loop, from_dataiter)
           b == taken.batch
           run == StepRun(b, ctx_tensor, raw_extra, preprocess_extra_context)
       IN  /\ step' = step + 1
           /\ last_step' = run
           /\ fetched' = fetched \o
                  <<[src |-> "loop", batch |-> from_loop.batch,
                     used |-> taken.src = "loop"],
                    [src |-> "dataiter", batch |-> from_dataiter.batch,
                     used |-> taken.src = "dataiter"]>>
           /\ IF run.raised
              THEN /\ pc' = "raised"
                   /\ UNCHANGED <<loss_meter, n_updates, global_step>>
              ELSE /\ loss_meter' = MeterUpdate(loss_meter, LossOf(b))
                   /\ n_updates' = n_updates + 1
                   /\ global_step' = global_step + 1
                   /\ pc' = IF CapReached(step + 1, unit_test_max_train_steps)
                            THEN "epoch_end" ELSE "steps"
    /\ UNCHANGED <<n_batches, shuffle_batches, unit_test_max_train_steps,
                   save_interval, has_scheduler, preprocess_extra_context,
                   ctx_tensor, raw_extra, training_epochs, epoch, loss_record,
                   loop_order, dataiter_order, mode, ckpt_writes,
                   n_learn_calls, history>>

\* representation_learner.py:281-292: the end of an epoch, reached by the break
\* of line 279 or when the loop's iterator is exhausted
EpochEnd ==
    /\ LoopLeft
    /\ LET due == SaveDue(epoch, save_interval)
           written == IF due THEN SavePaths(epoch) ELSE {}
       IN  /\ loss_record' = Append(loss_record, MeterAvg(loss_meter))
           /\ mode' = "eval"
           /\ ckpt_writes' = [p \in CkptPaths |->
                                 IF p \in written THEN ckpt_writes[p] + 1
                                 ELSE ckpt_writes[p]]
           /\ history' = Append(history,
                                [epoch |-> epoch, updates |-> n_updates,
                                 ops |-> EpochEndOps(has_scheduler, due),
                                 saved |-> written])
    /\ epoch' = epoch + 1
    /\ pc' = "epoch_top"
    /\ UNCHANGED <<n_batches, shuffle_batches, unit_test_max_train_steps,
                   save_interval, has_scheduler, preprocess_extra_context,
                   ctx_tensor, raw_extra, training_epochs, step, global_step,
                   loss_meter, loop_order, dataiter_order, n_updates,
                   n_learn_calls, last_step, fetched>>

\* The shapes of the batches: every (N, A, B, C) with N = 2 and A, B, C up to
\* MaxDim, and tensors of rank 1, 2, 3 and 5 with small and large axes.
Shapes4 == {<<2, a, b, c>> : a \in 1..MaxDim, b \in 1..MaxDim, c \in 1..MaxDim}

OtherShapes ==
    UNION {[1..r -> {1, MaxDim}] : r \in {1, 2, 3, 5}}

\* batch['extra_context'] as the loader collates it: the empty-list
\* placeholder, an action vector, or images in either layout
ExtraContexts ==
    {EmptyList, Tensor(<<2, 3>>, "float64", 0), Tensor(<<2, 1, 2, 2>>, "uint8", 0),
     Tensor(<<2, 3, 2, 2>>, "uint8", 0)}

\* A learner with a plain loop configuration, over datasets of every batch
\* shape and dtype, with and without extra context
StepInit ==
    /\ n_batches = 2
    /\ shuffle_batches = FALSE
    /\ unit_test_max_train_steps = NoCap
    /\ save_interval = 1
    /\ has_scheduler = FALSE
    /\ preprocess_extra_context \in BOOLEAN
    /\ ctx_tensor \in {Tensor(sh, dt, 0) : sh \in Shapes4 \cup OtherShapes,
                                          dt \in {"float64", "uint8"}}
    /\ raw_extra \in ExtraContexts
    /\ LearnState0

LearnIdle ==
    /\ n_batches = 1
    /\ shuffle_batches = FALSE
    /\ unit_test_max_train_steps = NoCap
    /\ save_interval = 1
    /\ has_scheduler = FALSE
    /\ preprocess_extra_context = TRUE
    /\ ctx_tensor = GoodImages
    /\ raw_extra = EmptyList
    /\ LearnState0

----------------------------------------------------------------------------
\* The decoders that take an extra context (decoders.py:150-344)

NoneDist == [kind |-> "none", id |-> 0]

Dist(i) == [kind |-> "dist", id |-> i]

GetVectorDefault(z_dist, smp) ==
    IF z_dist.kind = "none"
    THEN [raised |-> FALSE, vec |-> <<0, "zeros">>]
    ELSE [raised |-> FALSE,
          vec |-> <<z_dist.id, IF smp THEN "rsample" ELSE "mean">>]

\* decoders.py:49-53 LossDecoder.get_vector: z_dist.rsample() or z_dist.mean;
\* None has neither attribute (AttributeError)
GetVector(z_dist, smp) ==
    IF z_dist.kind = "none"
    THEN [raised |-> TRUE, vec |-> <<0, "none">>]
    ELSE [raised |-> FALSE,
          vec |-> <<z_dist.id, IF smp THEN "rsample" ELSE "mean">>]

NoVec == <<0, "none">>

\* A spread value c * e^m, c an exact rational: every spread the decoders
\* compute from whole-number layer outputs and constants has this form.
Val(c, m) == [c |-> c, m |-> m]

Num(n) == Val(Rat(n, 1), 0)

\* torch.exp of a whole number x
ExpV(x) == Val(RatOne, x)

\* v * v (Normal.variance of a stddev v)
SquareV(v) == Val(RatMul(v.c, v.c), 2 * v.m)

Positive(v) == v.c.n > 0

\* The stddev handed to independent_multivariate_normal: how it was formed
\* ("exp" of a layer, a "linear" layer, a "const") and its value
Spread(form, val) == [form |-> form, val |-> val]

NoSpread == Spread("none", Num(0))

\* The values a learned nn.Linear scale layer can take on an input, over its
\* parameter values
LinearOutputs == {0 - 1, 0, 1}

Raised(err) ==
    [outcome |-> "raised", error |-> err, layer |-> "none", z |-> NoVec,
     extra |-> NoVec, stddev |-> NoSpread]

Returned(layer, z, extra, stddev) ==
    [outcome |-> "returned", error |-> "none", layer |-> layer, z |-> z,
     extra |-> extra, stddev |-> stddev]

\* decoders.py:174-189 ActionPredictionHead.decode_context.  Line 180 stops in
\* the debugger: the call goes on when the debugger is continued and raises
\* BdbQuit when it is quit (or has no input).
ActionPredictionContext(z_dist, extra_context, smp, mappings) ==
    LET z == GetVector(z_dist, smp)
        z_future == GetVector(extra_context, smp)
    IN  IF z.raised \/ z_future.raised THEN {Raised("AttributeError")}
        ELSE {Raised("BdbQuit"),
              Returned(mappings, z.vec, z_future.vec, Spread("action_dist", Num(0)))}

\* decoders.py:282-306 PixelDecoder.decode_context, std_layer giving lin
\* on this input; constant_stddev is in tenths
PixelContext(z_dist, extra_context, smp, action_dim, scale, stddev, lin) ==
    LET z == GetVector(z_dist, smp)
        action_representation == GetVector(extra_context, smp)
        std_pixels == IF scale THEN Spread("exp", ExpV(lin))
                      ELSE Spread("const", Val(Rat(stddev, 10), 0))
    IN  IF z.raised THEN {Raised("AttributeError")}
        ELSE IF action_dim # "None"
        THEN IF action_representation.raised THEN {Raised("AttributeError")}
             ELSE {Returned("mean_layer", z.vec, action_representation.vec,
                            std_pixels)}
        ELSE {Returned("mean_layer", z.vec, NoVec, std_pixels)}

\* decoders.py:335-344 ActionConditionedVectorDecoder.decode_context,
\* scale_projection (a Linear when learn_scale, lines 328-331) giving lin on
\* this input
ActionConditionedContext(z_dist, extra_context, smp, scale, lin) ==
    LET z == GetVector(z_dist, smp)
        action_encoding_vector == GetVector(extra_context, smp)
    IN  IF z.raised \/ action_encoding_vector.raised
        THEN {Raised("AttributeError")}
        ELSE {Returned("action_conditioned_projection", z.vec,
                       action_encoding_vector.vec,
                       IF scale THEN Spread("linear", Num(lin))
                       ELSE Spread("const", Num(1)))}

\* decoders.py:55-56, 89-92: scale_layer is a Linear (giving lin) when
\* learn_scale, ones_like_projection_dim otherwise
ScaleLayer(scale, lin) == IF scale THEN lin ELSE 1

\* decoders.py:94-98 ProjectionHead.forward, which is its decode_context and
\* its decode_target (lines 42-47)
ProjectionHeadForward(z_dist, smp, scale, lin) ==
    LET z == GetVector(z_dist, smp)
    IN  IF z.raised THEN {Raised("AttributeError")}
        ELSE {Returned("mean_layer", z.vec, NoVec,
                       Spread("exp", ExpV(ScaleLayer(scale, lin))))}

DecoderClasses ==
    {"ActionPredictionHead", "PixelDecoder", "ActionConditionedVectorDecoder",
     "ProjectionHead"}

\* The outcomes of decoder.decode_context(z_dist, traj_info, extra_context),
\* a learned scale layer giving lin on this input
DecodeContextResults(z_dist, extra_context, lin) ==
    CASE decoder_class = "ActionPredictionHead" ->
             ActionPredictionContext(z_dist, extra_context, sample, param_mappings)
      [] decoder_class = "PixelDecoder" ->
             PixelContext(z_dist, extra_context, sample,
                          action_representation_dim, learn_scale,
                          constant_stddev, lin)
      [] decoder_class = "ActionConditionedVectorDecoder" ->
             ActionConditionedContext(z_dist, extra_context, sample,
                                      learn_scale, lin)
      [] decoder_class = "ProjectionHead" ->
             ProjectionHeadForward(z_dist, sample, learn_scale, lin)

\* The outcomes of decoder.decode_target(z_dist, traj_info, extra_context):
\* z_dist itself (decoders.py:191-192, 308-309, 332-333), or forward for the
\* projection head
DecodeTargetResults(z_dist, lin) ==
    IF decoder_class = "ProjectionHead"
    THEN {[result |-> r, returned_dist |-> NoneDist] :
              r \in ProjectionHeadForward(z_dist, sample, learn_scale, lin)}
    ELSE {[result |-> Returned("none", NoVec, NoVec, NoSpread),
           returned_dist |-> z_dist]}

NoDecCall ==
    [op |-> "none", z_dist |-> NoneDist, extra_context |-> NoneDist,
     result |-> Raised("none"), returned_dist |-> NoneDist]

\* The constructor arguments of the classes (decoders.py:80, 156, 210-212,
\* 322-323); an argument a class does not take is held at a fixed value.
\* constant_stddev is in tenths and passes the assert of line 235.
DecoderInit ==
    /\ decoder_class \in DecoderClasses
    /\ sample \in BOOLEAN
    /\ action_representation_dim \in
           (IF decoder_class = "PixelDecoder" THEN {"None", "set"} ELSE {"set"})
    /\ learn_scale \in
           (IF decoder_class = "ActionPredictionHead" THEN {FALSE} ELSE BOOLEAN)
    /\ constant_stddev \in
           (IF decoder_class = "PixelDecoder" THEN {0, 1} ELSE {1})
    /\ param_mappings \in
           (IF decoder_class = "ActionPredictionHead"
            THEN {"action_logits", "mean_actions"} ELSE {"none"})
    /\ dec_call = NoDecCall
    /\ n_dec_calls = 0

\* decoder.decode_context(z_dist, traj_info, extra_context), as called at
\* representation_learner.py:253, with the extra context present or None
CallDecodeContext ==
    /\ n_dec_calls < MaxDecodeCalls
    /\ \E z_dist \in {Dist(1), Dist(2)}, extra_context \in {NoneDist, Dist(3)},
          lin \in LinearOutputs :
          \E r \in DecodeContextResults(z_dist, extra_context, lin) :
              dec_call' = [op |-> "decode_context", z_dist |-> z_dist,
                           extra_context |-> extra_context, result |-> r,
                           returned_dist |-> NoneDist]
    /\ n_dec_calls' = n_dec_calls + 1
    /\ UNCHANGED <<decoder_class, sample, action_representation_dim,
                   learn_scale, constant_stddev, param_mappings>>

\* decoder.decode_target(z_dist, traj_info, extra_context), as called at
\* representation_learner.py:254
CallDecodeTarget ==
    /\ n_dec_calls < MaxDecodeCalls
    /\ \E z_dist \in {Dist(1), Dist(2)}, extra_context \in {NoneDist, Dist(3)},
          lin \in LinearOutputs :
          \E r \in DecodeTargetResults(z_dist, lin) :
              dec_call' = [op |-> "decode_target", z_dist |-> z_dist,
                           extra_context |-> extra_context,
                           result |-> r.result,
                           returned_dist |-> r.returned_dist]
    /\ n_dec_calls' = n_dec_calls + 1
    /\ UNCHANGED <<decoder_class, sample, action_representation_dim,
                   learn_scale, constant_stddev, param_mappings>>

DecoderIdle ==
    /\ decoder_class = "PixelDecoder"
    /\ sample = FALSE
    /\ action_representation_dim = "None"
    /\ learn_scale = FALSE
    /\ constant_stddev = 1
    /\ param_mappings = "none"
    /\ dec_call = NoDecCall
    /\ n_dec_calls = 0

----------------------------------------------------------------------------
\* RepresentationLearner.validate_and_update_kwargs
\* (representation_learner.py:119-147)

\* A value in a kwargs dict: an atom (a class, a number, None), or a nested
\* dict of atoms, held as its set of <<key, atom>> items.
Atom(a) == [t |-> "atom", a |-> a, d |-> {}]

DictV(items) == [t |-> "dict", a |-> "dict", d |-> items]

Absent == [t |-> "absent", a |-> "absent", d |-> {}]

\* representation_learner.py:18
DEFAULT_HARDCODED_PARAMS ==
    <<"encoder", "decoder", "loss_calculator", "augmenter",
      "target_pair_constructor">>

Keys ==
    {"encoder", "decoder", "loss_calculator", "augmenter",
     "target_pair_constructor", "batch_size", "optimizer_kwargs"}

\* representation_learner.py:21-27 on the signature of lines 39-61: only the
\* parameters that have a default; encoder, decoder, loss_calculator and
\* target_pair_constructor have none
DefaultArgs ==
    [k \in {"augmenter", "batch_size", "optimizer_kwargs"} |->
        CASE k = "augmenter" -> Atom("AugmentContextOnly")
          [] k = "batch_size" -> Atom("256")
          [] k = "optimizer_kwargs" -> Atom("None")]

EmptyDict == [k \in {} |-> Absent]

Raise(err) == [outcome |-> err, value |-> EmptyDict]

Return(dict) == [outcome |-> "returned", value |-> dict]

\* del d[key]
Del(dict, key) == [k \in (DOMAIN dict) \ {key} |-> dict[k]]

\* d[key] = val
Put(dict, key, val) ==
    [k \in (DOMAIN dict) \cup {key} |-> IF k = key THEN val ELSE dict[k]]

\* representation_learner.py:129-135: the loop over the hardcoded parameters,
\* from the i-th on
RECURSIVE CheckHardcoded(_, _, _)
CheckHardcoded(copy, hardcoded_params, i) ==
    IF i > Len(hardcoded_params) THEN Return(copy)
    ELSE LET hardcoded_param == hardcoded_params[i]
         IN  IF hardcoded_param \notin DOMAIN copy
             THEN CheckHardcoded(copy, hardcoded_params, i + 1)
             ELSE IF hardcoded_param \notin DOMAIN DefaultArgs
             THEN Raise("KeyError")
             ELSE IF copy[hardcoded_param] # DefaultArgs[hardcoded_param]
             THEN Raise("ValueError")
             ELSE CheckHardcoded(Del(copy, hardcoded_param),
                                 hardcoded_params, i + 1)

ItemKeys(items) == {it[1] : it \in items}

\* representation_learner.py:142-144: the recursive call on a nested dict of
\* atoms, with params_cleaned=True
NestedUpdate(items, update) ==
    IF update = Atom("None") THEN [outcome |-> "returned", items |-> items]
    ELSE IF update.t # "dict" THEN [outcome |-> "TypeError", items |-> {}]
    ELSE IF \E it \in update.d : it[1] \notin ItemKeys(items)
    THEN [outcome |-> "KeyError", items |-> {}]
    ELSE [outcome |-> "returned",
          items |-> {it \in items : it[1] \notin ItemKeys(update.d)}
                        \cup update.d]

\* representation_learner.py:140-146: the loop over kwargs_updates, from the
\* i-th item on
RECURSIVE ApplyUpdates(_, _, _)
ApplyUpdates(copy, updates, i) ==
    IF i > Len(updates) THEN Return(copy)
    ELSE LET kwarg_update_key == updates[i][1]
             update == updates[i][2]
         IN  IF kwarg_update_key \notin DOMAIN copy THEN Raise("KeyError")
             ELSE IF copy[kwarg_update_key].t = "dict"
             THEN LET r == NestedUpdate(copy[kwarg_update_key].d, update)
                  IN  IF r.outcome # "returned" THEN Raise(r.outcome)
                      ELSE ApplyUpdates(Put(copy, kwarg_update_key, DictV(r.items)),
                                        updates, i + 1)
             ELSE ApplyUpdates(Put(copy, kwarg_update_key, update), updates, i + 1)

\* representation_learner.py:119-147, with hardcoded_params left at None
ValidateAndUpdateKwargs(user, updates, cleaned) ==
    LET checked == IF cleaned THEN Return(user)
                   ELSE CheckHardcoded(user, DEFAULT_HARDCODED_PARAMS, 1)
    IN  IF checked.outcome # "returned" THEN checked
        ELSE IF updates.t = "none" THEN checked
        ELSE IF updates.t # "dict" THEN Raise("TypeError")
        ELSE ApplyUpdates(checked.value, updates.items, 1)

\* The dict with the given value per key, keys whose value is Absent left out
MakeKwargs(e, d, l, a, t, b, o) ==
    LET full == [k \in Keys |->
                    CASE k = "encoder" -> e
                      [] k = "decoder" -> d
                      [] k = "loss_calculator" -> l
                      [] k = "augmenter" -> a
                      [] k = "target_pair_constructor" -> t
                      [] k = "batch_size" -> b
                      [] k = "optimizer_kwargs" -> o]
    IN  [k \in {k \in Keys : full[k] # Absent} |-> full[k]]

UserKwargs ==
    {MakeKwargs(e, d, l, a, t, b, o) :
        e \in {Absent, Atom("custom")},
        d \in {Absent, Atom("custom")},
        l \in {Absent, Atom("custom")},
        a \in {Absent, Atom("AugmentContextOnly"), Atom("custom")},
        t \in {Absent, Atom("custom")},
        b \in {Absent, Atom("256"), Atom("64")},
        o \in {Absent, Atom("None"), DictV({}), DictV({<<"lr", "1">>})}}

\* kwargs_updates: None, something that is not a dict, or a dict held as the
\* sequence of its items in iteration order
KwargsUpdates ==
    {[t |-> "none", items |-> <<>>], [t |-> "nondict", items |-> <<>>]}
    \cup {[t |-> "dict", items |-> its] : its \in
            {<<>>,
             << <<"batch_size", Atom("64")>> >>,
             << <<"augmenter", Atom("custom")>> >>,
             << <<"optimizer_kwargs", DictV({<<"lr", "2">>})>> >>,
             << <<"optimizer_kwargs", Atom("7")>> >>,
             << <<"batch_size", Atom("64")>>,
                <<"optimizer_kwargs", DictV({<<"lr", "2">>})>> >>}}

\* The dict objects of a call: the caller's user_kwargs and kwargs_updates,
\* the dict nested in each under optimizer_kwargs, and the copies the call
\* makes of the first two.
ObjIds ==
    {"user", "user.optimizer_kwargs", "updates", "updates.optimizer_kwargs",
     "copy", "copy.optimizer_kwargs"}

InputObjs ==
    {"user", "user.optimizer_kwargs", "updates", "updates.optimizer_kwargs"}

\* A reference to a dict object, as a value held in another dict
Ref(id) == [t |-> "dict", a |-> id, d |-> {}]

ToContent(items) ==
    [k \in ItemKeys(items) |-> Atom((CHOOSE it \in items : it[1] = k)[2])]

ItemsOf(content) == {<<k, content[k].a>> : k \in DOMAIN content}

HeapValue(v, id) == IF v.t = "dict" THEN Ref(id) ELSE v

UpdateKeys(updates) == {updates.items[i][1] : i \in DOMAIN updates.items}

UpdateValue(updates, k) ==
    (CHOOSE it \in {updates.items[i] : i \in DOMAIN updates.items} : it[1] = k)[2]

\* The objects as the caller hands them over
InitialHeap(user, updates) ==
    [o \in ObjIds |->
        CASE o = "user" ->
                 [k \in DOMAIN user |-> HeapValue(user[k], "user.optimizer_kwargs")]
          [] o = "user.optimizer_kwargs" ->
                 IF "optimizer_kwargs" \in DOMAIN user
                    /\ user["optimizer_kwargs"].t = "dict"
                 THEN ToContent(user["optimizer_kwargs"].d) ELSE EmptyDict
          [] o = "updates" ->
                 [k \in UpdateKeys(updates) |->
                     HeapValue(UpdateValue(updates, k), "updates.optimizer_kwargs")]
          [] o = "updates.optimizer_kwargs" ->
                 IF "optimizer_kwargs" \in UpdateKeys(updates)
                    /\ UpdateValue(updates, "optimizer_kwargs").t = "dict"
                 THEN ToContent(UpdateValue(updates, "optimizer_kwargs").d)
                 ELSE EmptyDict
          [] OTHER -> EmptyDict]

CopyDictAliased(h, src, new) == [heap |-> h, ref |-> src]

\* representation_learner.py:123 user_kwargs.copy(): a new dict object with
\* the entries of src
CopyDict(h, src, new) == [heap |-> [h EXCEPT ![new] = h[src]], ref |-> new]

\* d[key] = val and del d[key] on the object ref names
HeapPut(h, ref, key, val) == [h EXCEPT ![ref] = Put(h[ref], key, val)]

HeapDel(h, ref, key) == [h EXCEPT ![ref] = Del(h[ref], key)]

HeapRaise(err, h) == [outcome |-> err, heap |-> h, ref |-> "none"]

HeapReturn(h, ref) == [outcome |-> "returned", heap |-> h, ref |-> ref]

\* representation_learner.py:129-135 on the object ref names
RECURSIVE HeapCheckHardcoded(_, _, _, _)
HeapCheckHardcoded(h, ref, hardcoded_params, i) ==
    IF i > Len(hardcoded_params) THEN HeapReturn(h, ref)
    ELSE LET hardcoded_param == hardcoded_params[i]
         IN  IF hardcoded_param \notin DOMAIN h[ref]
             THEN HeapCheckHardcoded(h, ref, hardcoded_params, i + 1)
             ELSE IF hardcoded_param \notin DOMAIN DefaultArgs
             THEN HeapRaise("KeyError", h)
             ELSE IF h[ref][hardcoded_param] # DefaultArgs[hardcoded_param]
             THEN HeapRaise("ValueError", h)
             ELSE HeapCheckHardcoded(HeapDel(h, ref, hardcoded_param), ref,
                                     hardcoded_params, i + 1)

\* representation_learner.py:140-146 in the recursive call: the items of the
\* dict object src written into the object ref names, key by key
RECURSIVE HeapNestedItems(_, _, _, _)
HeapNestedItems(h, ref, src, keys) ==
    IF keys = {} THEN HeapReturn(h, ref)
    ELSE LET k == CHOOSE x \in keys : TRUE
         IN  IF k \notin DOMAIN h[ref] THEN HeapRaise("KeyError", h)
             ELSE HeapNestedItems(HeapPut(h, ref, k, h[src][k]), ref, src,
                                  keys \ {k})

\* representation_learner.py:142-144: the recursive call on the nested dict
\* object target with the update value, params_cleaned=True
HeapNestedUpdate(h, target, update) ==
    LET c == CopyDict(h, target, "copy.optimizer_kwargs")
    IN  IF update = Atom("None") THEN HeapReturn(c.heap, c.ref)
        ELSE IF update.t # "dict" THEN HeapRaise("TypeError", c.heap)
        ELSE HeapNestedItems(c.heap, c.ref, update.a, DOMAIN c.heap[update.a])

\* representation_learner.py:140-146 on the object ref names, from the i-th
\* key of kwargs_updates on
RECURSIVE HeapApplyUpdates(_, _, _, _)
HeapApplyUpdates(h, ref, keys, i) ==
    IF i > Len(keys) THEN HeapReturn(h, ref)
    ELSE LET kwarg_update_key == keys[i]
             update == h["updates"][kwarg_update_key]
         IN  IF kwarg_update_key \notin DOMAIN h[ref] THEN HeapRaise("KeyError", h)
             ELSE IF h[ref][kwarg_update_key].t = "dict"
             THEN LET r == HeapNestedUpdate(h, h[ref][kwarg_update_key].a, update)
                  IN  IF r.outcome # "returned" THEN HeapRaise(r.outcome, r.heap)
                      ELSE HeapApplyUpdates(
                               HeapPut(r.heap, ref, kwarg_update_key, Ref(r.ref)),
                               ref, keys, i + 1)
             ELSE HeapApplyUpdates(HeapPut(h, ref, kwarg_update_key, update),
                                   ref, keys, i + 1)

\* representation_learner.py:119-147 on the caller's objects
HeapValidate(h, updates, cleaned) ==
    LET c == CopyDict(h, "user", "copy")
        checked == IF cleaned THEN HeapReturn(c.heap, c.ref)
                   ELSE HeapCheckHardcoded(c.heap, c.ref,
                                           DEFAULT_HARDCODED_PARAMS, 1)
    IN  IF checked.outcome # "returned" THEN checked
        ELSE IF updates.t = "none" THEN checked
        ELSE IF updates.t # "dict" THEN HeapRaise("TypeError", checked.heap)
        ELSE HeapApplyUpdates(checked.heap, checked.ref,
                              [i \in DOMAIN updates.items |-> updates.items[i][1]],
                              1)

\* The dict an object holds, nested dicts written out
Deref(h, ref) ==
    [k \in DOMAIN h[ref] |->
        IF h[ref][k].t = "dict" THEN DictV(ItemsOf(h[h[ref][k].a]))
        ELSE h[ref][k]]

NoResult == [outcome |-> "none", value |-> EmptyDict]

KwargsInit ==
    /\ user_kwargs \in UserKwargs
    /\ kwargs_updates \in KwargsUpdates
    /\ params_cleaned \in BOOLEAN
    /\ kwargs_result = NoResult
    /\ kwargs_heap = InitialHeap(user_kwargs, kwargs_updates)
    /\ kwargs_ret = "none"

\* One call of validate_and_update_kwargs(user_kwargs, kwargs_updates,
\* params_cleaned=params_cleaned)
Validate ==
    /\ kwargs_result = NoResult
    /\ kwargs_result' =
           ValidateAndUpdateKwargs(user_kwargs, kwargs_updates, params_cleaned)
    /\ LET r == HeapValidate(kwargs_heap, kwargs_updates, params_cleaned)
       IN  /\ kwargs_heap' = r.heap
           /\ kwargs_ret' = r.ref
    /\ UNCHANGED <<user_kwargs, kwargs_updates, params_cleaned>>

KwargsIdle ==
    /\ user_kwargs = EmptyDict
    /\ kwargs_updates = [t |-> "none", items |-> <<>>]
    /\ params_cleaned = FALSE
    /\ kwargs_result = NoResult
    /\ kwargs_heap = InitialHeap(EmptyDict, [t |-> "none", items |-> <<>>])
    /\ kwargs_ret = "none"

----------------------------------------------------------------------------
\* RepresentationLearner.__init__ up to the construction of the batch extender
\* (representation_learner.py:39-104).  Dict values are whole numbers: sizes
\* and dimensions as themselves, sample as 0 or 1, the device as DeviceId.

DeviceId == 0

NoneDim == 0

NoDict == [k \in {} |-> 0]

\* dict with key set to value
DictSet(d, key, value) ==
    [k \in DOMAIN d \cup {key} |-> IF k = key THEN value ELSE d[k]]

\* The dicts a caller passes as batch_extender_kwargs
CallerDicts ==
    {NoDict}
    \cup {DictSet(NoDict, "queue_size", n) : n \in 1..MaxQueueSize}
    \cup {DictSet(DictSet(NoDict, "queue_size", n), "sample", b) :
              n \in 1..MaxQueueSize, b \in {0, 1}}

\* representation_learner.py:82-85
ProjectionDim(proj, repr) == IF proj = NoneDim THEN repr ELSE proj

\* Python's `x or {}`: x itself when it is truthy (a non-empty dict), else
\* the object the {} literal creates
OrEmptyDict(ref, heap) ==
    IF ref # "None" /\ DOMAIN heap[ref] # {} THEN ref ELSE "fresh"

\* representation_learner.py:94-98: the object batch_extender_kwargs names
\* after the block, and the heap after its two item assignments
QueueKwargs(ref, heap, proj) ==
    LET obj == OrEmptyDict(ref, heap)
        h1 == [heap EXCEPT ![obj] = DictSet(heap[obj], "queue_dim", proj)]
        h2 == [h1 EXCEPT ![obj] = DictSet(h1[obj], "device", DeviceId)]
    IN  [ref |-> obj, heap |-> h2]

\* The keyword parameters of the extender classes' __init__
\* (batch_extenders.py:16, 29): names, those without a default, and whether
\* a **kwargs parameter takes the rest
Signature(cls) ==
    IF cls = "QueueBatchExtender"
    THEN [names |-> {"queue_size", "queue_dim", "sample"},
          required |-> {"queue_size", "queue_dim"}, var_keyword |-> FALSE]
    ELSE [names |-> {}, required |-> {}, var_keyword |-> TRUE]

NoExtender == [class |-> "none", queue_size |-> 0, representation_dim |-> 0,
               sample |-> 0, queue_ptr |-> 0]

\* batch_extenders.py:29-36 QueueBatchExtender.__init__ (the two randn
\* buffers have queue_size rows of queue_dim entries), and
\* IdentityBatchExtender, which has no fields
NewExtender(cls, kw) ==
    IF cls = "QueueBatchExtender"
    THEN [class |-> cls, queue_size |-> kw["queue_size"],
          representation_dim |-> kw["queue_dim"],
          sample |-> IF "sample" \in DOMAIN kw THEN kw["sample"] ELSE 0,
          queue_ptr |-> 0]
    ELSE [NoExtender EXCEPT !.class = cls]

\* The call cls(**kw): Python binds the keywords to the signature and raises
\* TypeError for a keyword the signature does not take or a missing required
\* parameter, before __init__'s body runs
CallExtender(cls, kw) ==
    LET sig == Signature(cls)
    IN  IF ~sig.var_keyword /\ ~(DOMAIN kw \subseteq sig.names)
        THEN [error |-> "TypeError: unexpected keyword argument",
              extender |-> NoExtender]
        ELSE IF ~(sig.required \subseteq DOMAIN kw)
        THEN [error |-> "TypeError: missing required argument",
              extender |-> NoExtender]
        ELSE [error |-> "none", extender |-> NewExtender(cls, kw)]

\* The arguments of a RepresentationLearner(...) call
ConstructorInit ==
    /\ batch_extender \in {"IdentityBatchExtender", "QueueBatchExtender"}
    /\ representation_dim \in 1..MaxDim
    /\ projection_dim \in {NoneDim} \cup 1..MaxDim
    /\ batch_extender_kwargs \in {"None", "caller"}
    /\ caller_dict0 \in
           (IF batch_extender_kwargs = "None" THEN {NoDict} ELSE CallerDicts)
    /\ ctor_heap = [o \in {"caller", "fresh"} |->
                       IF o = "caller" THEN caller_dict0 ELSE NoDict]
    /\ ctor_pc = "start"
    /\ ctor_error = "none"
    /\ self_batch_extender = NoExtender

\* representation_learner.py:82-104
Construct ==
    /\ ctor_pc = "start"
    /\ LET proj == ProjectionDim(projection_dim, representation_dim)
           kw == IF batch_extender = "QueueBatchExtender"
                 THEN QueueKwargs(batch_extender_kwargs, ctor_heap, proj)
                 ELSE [ref |-> batch_extender_kwargs, heap |-> ctor_heap]
           made == IF kw.ref = "None"
                   THEN CallExtender(batch_extender, NoDict)
                   ELSE CallExtender(batch_extender, kw.heap[kw.ref])
       IN  /\ ctor_heap' = kw.heap
           /\ ctor_error' = made.error
           /\ self_batch_extender' = made.extender
           /\ ctor_pc' = IF made.error = "none" THEN "constructed" ELSE "raised"
    /\ UNCHANGED <<batch_extender, batch_extender_kwargs, representation_dim,
                   projection_dim, caller_dict0>>

\* No RepresentationLearner under construction (the specifications of the
\* other components).
ConstructorIdle ==
    /\ batch_extender = "IdentityBatchExtender"
    /\ batch_extender_kwargs = "None"
    /\ representation_dim = 1
    /\ projection_dim = NoneDim
    /\ ctor_heap = [o \in {"caller", "fresh"} |-> NoDict]
    /\ caller_dict0 = NoDict
    /\ ctor_pc = "idle"
    /\ ctor_error = "none"
    /\ self_batch_extender = NoExtender

-----------------------------------------------------------------------------
\* The specifications.

vars == <<qvars, mvars, lvars, dvars, kvars, cvars>>

NextQueue == Extend /\ UNCHANGED <<mvars, lvars, dvars, kvars, cvars>>

InitQueue ==
    /\ QueueInit
    /\ MomentumIdle /\ LearnIdle /\ DecoderIdle /\ KwargsIdle /\ ConstructorIdle

SpecQueue == InitQueue /\ [][NextQueue]_vars

NextMomentum ==
    \/ DecodeContext /\ UNCHANGED <<qvars, lvars, dvars, kvars, cvars>>
    \/ DecodeTarget /\ UNCHANGED <<qvars, lvars, dvars, kvars, cvars>>
    \/ Backward /\ UNCHANGED <<qvars, lvars, dvars, kvars, cvars>>
    \/ OptimizerStep /\ UNCHANGED <<qvars, lvars, dvars, kvars, cvars>>

InitMomentum ==
    /\ MomentumInit
    /\ QueueIdle /\ LearnIdle /\ DecoderIdle /\ KwargsIdle /\ ConstructorIdle

SpecMomentum == InitMomentum /\ [][NextMomentum]_vars

NextLearn ==
    \/ CallLearn /\ UNCHANGED <<qvars, mvars, dvars, kvars, cvars>>
    \/ EpochTop /\ UNCHANGED <<qvars, mvars, dvars, kvars, cvars>>
    \/ TrainStep /\ UNCHANGED <<qvars, mvars, dvars, kvars, cvars>>
    \/ EpochEnd /\ UNCHANGED <<qvars, mvars, dvars, kvars, cvars>>

InitLearn ==
    /\ LearnInit
    /\ QueueIdle /\ MomentumIdle /\ DecoderIdle /\ KwargsIdle /\ ConstructorIdle

SpecLearn == InitLearn /\ [][NextLearn]_vars

InitStep ==
    /\ StepInit
    /\ QueueIdle /\ MomentumIdle /\ DecoderIdle /\ KwargsIdle /\ ConstructorIdle

SpecStep == InitStep /\ [][NextLearn]_vars

NextDecoders ==
    \/ CallDecodeContext /\ UNCHANGED <<qvars, mvars, lvars, kvars, cvars>>
    \/ CallDecodeTarget /\ UNCHANGED <<qvars, mvars, lvars, kvars, cvars>>

InitDecoders ==
    /\ DecoderInit
    /\ QueueIdle /\ MomentumIdle /\ LearnIdle /\ KwargsIdle /\ ConstructorIdle

SpecDecoders == InitDecoders /\ [][NextDecoders]_vars

NextKwargs == Validate /\ UNCHANGED <<qvars, mvars, lvars, dvars, cvars>>

InitKwargs ==
    /\ KwargsInit
    /\ QueueIdle /\ MomentumIdle /\ LearnIdle /\ DecoderIdle /\ ConstructorIdle

SpecKwargs == InitKwargs /\ [][NextKwargs]_vars

NextConstructor == Construct /\ UNCHANGED <<qvars, mvars, lvars, dvars, kvars>>

InitConstructor ==
    /\ ConstructorInit
    /\ QueueIdle /\ MomentumIdle /\ LearnIdle /\ DecoderIdle /\ KwargsIdle

SpecConstructor == InitConstructor /\ [][NextConstructor]_vars

----------------------------------------------------------------------------
\* Claims about the negative queue (checked under SpecQueue).

Row(loc, scale, i) == <<loc[i], scale[i]>>

SeenRow(n) == <<TargetLoc(n), TargetScale(n)>>

\* The slots a wrap-around write of batch_size rows at ptr0 is to cover.
RingSlots(ptr0, batch_size, size) ==
    {(ptr0 + i) % size : i \in 0..(batch_size - 1)}

\* C1: every call with batch_size <= queue_size completes without error,
\* writes the i-th target's (mean, spread) to slot (ptr + i) mod queue_size for
\* i in [0, batch_size), leaves every other slot unchanged and sets ptr to
\* (ptr + batch_size) mod queue_size, which stays in [0, queue_size).
C1_WrapAroundWrite ==
    call.status # "none" =>
        /\ call.status = "returned"
        /\ \A i \in 0..(call.batch_size - 1) :
              Row(queue_loc, queue_scale, (call.ptr0 + i) % queue_size)
                  = Row(call.targets_loc, call.targets_scale, i)
        /\ \A s \in 0..(queue_size - 1) :
              s \notin RingSlots(call.ptr0, call.batch_size, queue_size) =>
                  Row(queue_loc, queue_scale, s) = Row(call.loc0, call.scale0, s)
        /\ queue_ptr = (call.ptr0 + call.batch_size) % queue_size
        /\ queue_ptr \in 0..(queue_size - 1)

\* C2: a call that returns hands back the input context unchanged and a merged
\* target made of the current batch's rows followed by the queue as it was
\* before this call's write; the merged target has batch_size + queue_size rows
\* and holds each row of the current batch exactly once.
C2_SelfExclusion ==
    call.status = "returned" =>
        /\ call.ret_context = call.context
        /\ call.merged_loc = Cat0(call.targets_loc, call.loc0)
        /\ call.merged_scale = Cat0(call.targets_scale, call.scale0)
        /\ Size0(call.merged_loc) = call.batch_size + queue_size
        /\ Size0(call.merged_scale) = call.batch_size + queue_size
        /\ \A i \in 0..(call.batch_size - 1) :
              Cardinality({j \in DOMAIN call.merged_loc :
                  Row(call.merged_loc, call.merged_scale, j)
                      = Row(call.targets_loc, call.targets_scale, i)}) = 1

\* The spec's scenario at half scale: batch 2 into a fresh queue of 4 returns 6
\* rows, 2 live then the 4 initial ones, and slots 0..1 then hold the batch.
C2_Witness ==
    /\ call.status = "returned"
    /\ queue_size = 4
    /\ sizes = <<2>>
    /\ Size0(call.merged_loc) = 6
    /\ \A i \in 0..1 : call.merged_loc[i] = TargetLoc(i + 1)
    /\ \A i \in 0..3 : call.merged_loc[2 + i] = InitLoc(i)
    /\ \A i \in 0..1 : queue_loc[i] = TargetLoc(i + 1)

AllSizes(b) == \A k \in 1..Len(sizes) : sizes[k] = b

\* C3: with one batch size b that divides queue_size, queue_size / b calls on a
\* fresh queue leave queue_ptr = 0 and every slot overwritten exactly once; one
\* more call overwrites slots [0, b) and no slot outside [0, queue_size).
C3_FullCycle ==
    \A b \in 1..queue_size :
        (queue_size % b = 0 /\ AllSizes(b)) =>
            /\ n_raised = 0
            /\ (Len(sizes) = queue_size \div b =>
                  /\ queue_ptr = 0
                  /\ \A s \in 0..(queue_size - 1) :
                        /\ overwrites[s] = 1
                        /\ queue_loc[s] = TargetLoc(s + 1)
                        /\ queue_scale[s] = TargetScale(s + 1))
            /\ (Len(sizes) = queue_size \div b + 1 =>
                  /\ call.status = "returned"
                  /\ call.written = 0..(b - 1)
                  /\ call.written \subseteq 0..(queue_size - 1)
                  /\ \A s \in 0..(queue_size - 1) :
                        overwrites[s] = IF s < b THEN 2 ELSE 1
                  /\ \A s \in 0..(b - 1) :
                        Row(queue_loc, queue_scale, s)
                            = Row(call.targets_loc, call.targets_scale, s)
                  /\ \A s \in b..(queue_size - 1) :
                        Row(queue_loc, queue_scale, s) = Row(call.loc0, call.scale0, s))

C3_Witness ==
    /\ queue_size = 4
    /\ sizes = <<2, 2, 2>>
    /\ call.status = "returned"
    /\ call.ptr0 = 0
    /\ call.written = {0, 1}
    /\ queue_ptr = 2

\* C4: after any sequence of calls (each batch_size <= queue_size), once at
\* least queue_size rows have been seen the buffer holds exactly the most
\* recent queue_size of them, each once; before that it holds all the rows
\* seen, each once, and every other slot holds its initial value.
C4_MostRecent ==
    LET first == IF n_seen >= queue_size THEN n_seen - queue_size + 1 ELSE 1
        recent == {SeenRow(n) : n \in first..n_seen}
        held(i) == Row(queue_loc, queue_scale, i)
        slots == 0..(queue_size - 1)
    IN  /\ \A r \in recent : Cardinality({i \in slots : held(i) = r}) = 1
        /\ \A i \in slots :
              held(i) \notin recent =>
                  held(i)[1] = InitLoc(i) /\ held(i)[2] \in InitScales(i)
        /\ n_seen >= queue_size => \A i \in slots : held(i) \in recent

----------------------------------------------------------------------------
\* Claims about the momentum heads (checked under SpecMomentum).

ConstructionParams == [i \in ParamIdx |-> InitParam(i)]

\* m * k + (1 - m) * q, written out
Blend(k, q, m) == RatAdd(RatMul(m, k), RatMul(RatSub(RatOne, m), q))

GradIsolated ==
    /\ TargetParams \cap opt_params = {}
    /\ \A p \in TargetParams : ~requires_grad[p]
    /\ TargetParams \cap has_grad = {}
    /\ out_tgt.graph = {}
    /\ ev.op = "init" => target_decoder = context_decoder

\* C5: the target head starts as a copy of the online head with every
\* parameter non-trainable; whatever decode calls, backward passes and
\* optimizer steps run, no target parameter is among the optimizer's
\* parameters or receives a gradient, the decode_target output has no gradient
\* path, and the target parameters change only in a decode_target call (its
\* EMA update).
C5_GradientIsolation ==
    /\ []GradIsolated
    /\ [][target_decoder' # target_decoder => ev'.op = "decode_target"]_vars

C5_Witness ==
    /\ ev.op = "step"
    /\ n_ema >= 1
    /\ has_grad # {}
    /\ context_decoder # ev.online0
    /\ target_decoder # ConstructionParams
    /\ target_decoder # context_decoder

\* C6: a decode_target call (of either head) performs one EMA update, the i-th
\* target parameter becoming m * target_i + (1 - m) * online_i; a decode_context
\* call performs none and leaves the target parameters alone.
C6_EmaRule ==
    /\ ev.op = "decode_target" =>
          /\ n_ema = ev.n_ema0 + 1
          /\ \A i \in ParamIdx :
                target_decoder[i] =
                    Blend(ev.target0[i], ev.online0[i], momentum_weight)
    /\ ev.op = "decode_context" =>
          /\ n_ema = ev.n_ema0
          /\ target_decoder = ev.target0

C6_Witness ==
    /\ head = "BYOL"
    /\ ev.op = "decode_target"
    /\ momentum_weight \notin {RatZero, RatOne}
    /\ target_decoder # ev.target0
    /\ target_decoder # context_decoder

\* C7: with momentum_weight = 1 the target parameters keep their
\* construction-time values through any decode_target calls and optimizer steps.
C7_FixedPoint ==
    momentum_weight = RatOne => target_decoder = ConstructionParams

C7_Witness ==
    /\ momentum_weight = RatOne
    /\ ev.op = "decode_target"
    /\ n_ema >= 2
    /\ n_steps >= 1
    /\ context_decoder # target_decoder

\* C8: with momentum_weight = 0, right after a decode_target call every target
\* parameter equals its online parameter, whatever both were before.
C8_Convergence ==
    (momentum_weight = RatZero /\ ev.op = "decode_target") =>
        \A i \in ParamIdx : target_decoder[i] = context_decoder[i]

C8_Witness ==
    /\ momentum_weight = RatZero
    /\ ev.op = "decode_target"
    /\ ev.target0 # ev.online0
    /\ target_decoder = context_decoder

\* C9: the target distribution a decode_target call returns is computed from
\* the target parameters as they are after that call's EMA update.
C9_EmaBeforeForward ==
    /\ out_tgt.status = "returned" => out_tgt.params = target_decoder
    /\ ev.op = "decode_target" =>
          \A i \in ParamIdx :
              out_tgt.params[i] =
                  Blend(ev.target0[i], ev.online0[i], momentum_weight)

C9_Witness ==
    /\ ev.op = "decode_target"
    /\ out_tgt.status = "returned"
    /\ out_tgt.params # ev.target0
    /\ out_tgt.params = target_decoder

\* C10: the self-distillation (BYOL) head's decode_context applies the online
\* projection head, then the predictor, then normalizes the mean; its
\* decode_target applies the target head (no predictor), normalizes the mean
\* and is detached.
C10_ByolPaths ==
    head = "BYOL" =>
        /\ out_ctx.status = "returned" =>
              out_ctx.path = <<"context_decoder", "context_predictor", "normalize">>
        /\ out_tgt.status = "returned" =>
              /\ out_tgt.path = <<"target_decoder", "normalize">>
              /\ out_tgt.graph = {}

----------------------------------------------------------------------------
\* Claims about RepresentationLearner.learn (checked under SpecLearn).

Min(a, b) == IF a < b THEN a ELSE b

Count(seq, x) == Cardinality({i \in DOMAIN seq : seq[i] = x})

RECURSIVE SumLoss(_, _)
SumLoss(order, k) == IF k = 0 THEN 0 ELSE LossOf(order[k]) + SumLoss(order, k - 1)

Running == {"epoch_top", "steps", "epoch_end"}

\* The optimizer updates an epoch is to make: min(cap, n) under a cap c >= 1,
\* all n batches without one.
ExpectedUpdates ==
    IF unit_test_max_train_steps.some
    THEN Min(unit_test_max_train_steps.val, n_batches)
    ELSE n_batches

\* The step cap, if there is one, is at least 1
CapAtLeastOne ==
    unit_test_max_train_steps.some => unit_test_max_train_steps.val >= 1

\* C11: with a step cap c >= 1 and n >= 1 batches, every epoch makes exactly
\* min(c, n) optimizer updates, and the end-of-epoch bookkeeping (scheduler
\* step if a scheduler is configured, appending the average loss, the switch
\* to eval mode, the checkpoint check) runs exactly once per epoch, after the
\* epoch's last step.
C11_StepCap ==
    /\ Len(history) = epoch
    /\ CapAtLeastOne /\ pc \in {"steps", "epoch_end"}
           => n_updates <= ExpectedUpdates
    /\ CapAtLeastOne /\ pc = "epoch_end" => n_updates = ExpectedUpdates
    /\ \A i \in DOMAIN history :
          /\ history[i].epoch = i - 1
          /\ CapAtLeastOne => history[i].updates = ExpectedUpdates
          /\ Count(history[i].ops, "scheduler_step")
                 = (IF has_scheduler THEN 1 ELSE 0)
          /\ Count(history[i].ops, "append_loss") = 1
          /\ Count(history[i].ops, "eval") = 1

C11_Witness ==
    /\ unit_test_max_train_steps.some
    /\ unit_test_max_train_steps.val > 1
    /\ unit_test_max_train_steps.val < n_batches
    /\ has_scheduler
    /\ Len(history) = 2
    /\ history[2].updates = unit_test_max_train_steps.val

\* What is left of a learn() call: epochs still to run, and within the
\* current epoch the loop head, the steps, and the bookkeeping.
Variant ==
    IF pc \notin Running THEN 0
    ELSE (training_epochs - epoch) * (n_batches + 3)
         + (CASE pc = "epoch_top" -> n_batches + 2
              [] pc = "steps" -> n_batches + 1 - step
              [] pc = "epoch_end" -> 0)

C12_Returned ==
    /\ pc = "returned" =>
          /\ Len(loss_record) = training_epochs
          /\ Len(history) = training_epochs
          /\ epoch = training_epochs
    /\ pc = "epoch_top" /\ epoch > 0 =>
          /\ step > 0
          /\ loss_record[epoch] = Rat(SumLoss(dataiter_order, step), step)
    /\ pc \in Running => pc = "epoch_top" \/ LoopHasNext \/ LoopLeft

C12_Progress ==
    pc \in Running =>
        /\ Variant' < Variant
        /\ Variant' >= 0
        /\ SubSeq(loss_record', 1, Len(loss_record)) = loss_record

\* C12: learn(dataset, training_epochs) terminates after exactly
\* training_epochs epochs and returns a list of exactly training_epochs entries
\* in epoch order, the e-th being the average of the losses of the steps of
\* epoch e: a running call can always take a step, every step brings it closer
\* to the return, an entry once appended is never changed, and the entry
\* appended for an epoch is the mean of that epoch's step losses.
C12_LearnReturns == []C12_Returned /\ [][C12_Progress]_vars

C12_Witness ==
    /\ pc = "returned"
    /\ training_epochs = 2
    /\ shuffle_batches
    /\ unit_test_max_train_steps.some
    /\ loss_record[1] # loss_record[2]

\* C13: a checkpoint file, once written, is never written again, over any
\* number of epochs and any sequence of learn() calls on the same engine, and
\* none is deleted.
C13_CheckpointImmutable == \A p \in CkptPaths : ckpt_writes[p] <= 1

Pos(seq, x) == CHOOSE i \in DOMAIN seq : seq[i] = x

\* C14: within one learn() call the encoder and the decoder checkpoint are
\* written at the end of epoch e (from 0) exactly when e mod save_interval = 0,
\* as a pair keyed by e, after the switch to eval mode; no other epoch writes
\* one, so one pair is written per save interval.
C14_CheckpointInterval ==
    /\ \A i \in DOMAIN history :
          LET e == i - 1
              h == history[i]
          IN  IF e % save_interval = 0
              THEN /\ h.saved = {<<"representation_encoder", e>>,
                                 <<"loss_decoder", e>>}
                   /\ Count(h.ops, "save_encoder") = 1
                   /\ Count(h.ops, "save_decoder") = 1
                   /\ Pos(h.ops, "eval") < Pos(h.ops, "save_encoder")
                   /\ Pos(h.ops, "eval") < Pos(h.ops, "save_decoder")
              ELSE /\ h.saved = {}
                   /\ Count(h.ops, "save_encoder") = 0
                   /\ Count(h.ops, "save_decoder") = 0
    /\ pc = "epoch_top" /\ epoch > 0 => mode = "eval"
    /\ Cardinality({i \in DOMAIN history : history[i].saved # {}})
           = (Len(history) + save_interval - 1) \div save_interval

C14_Witness ==
    /\ save_interval = 2
    /\ Len(history) = 2
    /\ history[1].saved # {}
    /\ history[2].saved = {}

\* C16: within an epoch the k-th training step processes the k-th batch of
\* the data source's iteration for that epoch (dataiter, the iterator the
\* step draws its batch from), with or without shuffling; without shuffling
\* that is the k-th batch of the dataset.
C16_DataSourceOrder ==
    pc \in {"steps", "epoch_end"} /\ step > 0 =>
        /\ last_step.batch = dataiter_order[step]
        /\ ~shuffle_batches => last_step.batch = step

C16_Witness ==
    /\ pc = "steps"
    /\ shuffle_batches
    /\ step = 2
    /\ dataiter_order[step] # loop_order[step]
    /\ dataiter_order[step] # step
    /\ last_step.batch = dataiter_order[step]


\* C27: with unit_test_max_train_steps = 0 an epoch makes zero optimizer
\* updates, and the end-of-epoch bookkeeping still runs.
C27_ZeroCapNoTraining ==
    unit_test_max_train_steps = Cap(0) =>
        /\ pc \in {"steps", "epoch_end"} => n_updates = 0
        /\ Len(history) = epoch
        /\ \A i \in DOMAIN history :
              /\ history[i].updates = 0
              /\ Count(history[i].ops, "append_loss") = 1
              /\ Count(history[i].ops, "eval") = 1

\* How many batches the iterator src has yielded in this epoch
FetchedFrom(src) == Cardinality({i \in DOMAIN fetched : fetched[i].src = src})

\* C28: in an epoch without a step cap, the number of batches fetched from the
\* data source equals the number of training steps, every fetched batch is
\* used by a training step (none is fetched and discarded), and no iterator
\* is asked for more batches than the data source has.
C28_SingleConsumption ==
    unit_test_max_train_steps = NoCap /\ pc \in {"steps", "epoch_end"} =>
        /\ Len(fetched) = step
        /\ \A i \in DOMAIN fetched : fetched[i].used
        /\ FetchedFrom("loop") <= n_batches
        /\ FetchedFrom("dataiter") <= n_batches

----------------------------------------------------------------------------
\* Claims about one training step (checked under SpecStep).

StepDone == last_step.stages # <<>> /\ ~last_step.raised

Before(seq, x, y) ==
    /\ Count(seq, x) = 1
    /\ Count(seq, y) = 1
    /\ Pos(seq, x) < Pos(seq, y)

ClaimedOrder ==
    <<"prep_tensors", "preprocess", "augment", "encode_context",
      "encode_target", "encode_extra_context", "decode_context",
      "decode_target", "batch_extend", "loss", "zero_grad", "backward",
      "optimizer_step", "log">>

Bad4D(t) ==
    /\ t.kind = "tensor"
    /\ Len(t.shape) = 4
    /\ ~(t.shape[2] < t.shape[3] /\ t.shape[2] < t.shape[4])

\* C17: tensor preparation raises for every 4-dimensional batch tensor
\* (N, A, B, C) unless A < B and A < C, never changes the shape of a tensor,
\* and the failure comes before the step's encoding, loss and optimizer
\* update; tensors of another rank are not shape-checked.
C17_ShapeCheck ==
    last_step.stages # <<>> =>
        /\ last_step.raised <=>
              \/ Bad4D(ctx_tensor)
              \/ Bad4D(last_step.extra_unpacked)
        /\ last_step.raised =>
              /\ pc = "raised"
              /\ Count(last_step.stages, "encode_context") = 0
              /\ Count(last_step.stages, "loss") = 0
              /\ Count(last_step.stages, "optimizer_step") = 0
              /\ n_updates = step - 1
        /\ ~last_step.raised =>
              /\ last_step.contexts.shape = ctx_tensor.shape
              /\ last_step.targets.shape = ctx_tensor.shape
              /\ last_step.extra_prepped.shape = last_step.extra_unpacked.shape

C17_Witness ==
    /\ pc = "raised"
    /\ ctx_tensor.shape = <<2, 2, 2, 3>>
    /\ last_step.raised

----------------------------------------------------------------------------
\* Claims about the decoders' extra context (checked under SpecDecoders).

NeedsExtraContext ==
    \/ decoder_class = "ActionPredictionHead"
    \/ decoder_class = "ActionConditionedVectorDecoder"
    \/ decoder_class = "PixelDecoder" /\ action_representation_dim # "None"

\* C18: for the action-prediction head, the action-conditioned vector decoder
\* and the pixel decoder configured with an action representation dimension,
\* decode_context called with an absent extra context raises an error and
\* returns no distribution (none computed from a substituted default).
C18_MissingExtraRaises ==
    /\ dec_call.op = "decode_context"
    /\ dec_call.extra_context = NoneDist
    /\ NeedsExtraContext
    => /\ dec_call.result.outcome = "raised"
       /\ dec_call.result.error = "AttributeError"
       /\ dec_call.result.layer = "none"
       /\ dec_call.result.extra = NoVec

C18_Witness ==
    /\ decoder_class = "PixelDecoder"
    /\ action_representation_dim = "set"
    /\ sample
    /\ dec_call.op = "decode_context"
    /\ dec_call.extra_context = NoneDist
    /\ dec_call.result.outcome = "raised"

----------------------------------------------------------------------------
\* Claims about validate_and_update_kwargs (checked under SpecKwargs).

\* user_kwargs holds a hardcoded parameter with a value other than its
\* default (a parameter without a default has no default value to equal)
HasNonDefaultHardcoded ==
    \E i \in DOMAIN DEFAULT_HARDCODED_PARAMS :
        LET hp == DEFAULT_HARDCODED_PARAMS[i]
        IN  /\ hp \in DOMAIN user_kwargs
            /\ hp = "augmenter" => user_kwargs[hp] # Atom("AugmentContextOnly")

\* C20: called with its default options, validate_and_update_kwargs raises
\* the descriptive ValueError whenever user_kwargs holds a hardcoded parameter
\* (encoder, decoder, loss_calculator, augmenter, target_pair_constructor) with
\* a non-default value, raises TypeError whenever kwargs_updates is supplied
\* and is not a dict, and returns no dict in either case.
C20_PreconditionErrors ==
    kwargs_result # NoResult /\ ~params_cleaned =>
        /\ HasNonDefaultHardcoded => kwargs_result.outcome = "ValueError"
        /\ ~HasNonDefaultHardcoded /\ kwargs_updates.t = "nondict" =>
               kwargs_result.outcome = "TypeError"
        /\ HasNonDefaultHardcoded \/ kwargs_updates.t = "nondict" =>
               kwargs_result.outcome # "returned"

\* C21: validate_and_update_kwargs never mutates its inputs: the caller's
\* user_kwargs, the dict nested in it and kwargs_updates (with its nested
\* dict) hold after the call what they held before, whether the call returns
\* or raises; the updates are seen only in the returned copy, which is a
\* dict object of its own.
C21_InputsUnchanged ==
    kwargs_result # NoResult =>
        /\ \A o \in InputObjs :
              kwargs_heap[o] = InitialHeap(user_kwargs, kwargs_updates)[o]
        /\ kwargs_result.outcome = "returned" =>
              /\ kwargs_ret = "copy"
              /\ Deref(kwargs_heap, kwargs_ret) = kwargs_result.value
              /\ \A k \in UpdateKeys(kwargs_updates) :
                    kwargs_result.value[k].t = "atom" =>
                        kwargs_result.value[k] = UpdateValue(kwargs_updates, k)
        /\ kwargs_result.outcome # "returned" => kwargs_ret = "none"

C21_Witness ==
    /\ kwargs_result.outcome = "returned"
    /\ "augmenter" \in DOMAIN user_kwargs
    /\ "augmenter" \notin DOMAIN kwargs_result.value
    /\ "optimizer_kwargs" \in DOMAIN user_kwargs
    /\ user_kwargs["optimizer_kwargs"] = DictV({<<"lr", "1">>})
    /\ kwargs_result.value["optimizer_kwargs"] = DictV({<<"lr", "2">>})
    /\ kwargs_heap["user.optimizer_kwargs"] = ToContent({<<"lr", "1">>})

----------------------------------------------------------------------------
\* Further claims about the negative queue (checked under SpecQueue).

\* C22: every merged target distribution the queue extender returns has
\* strictly positive spread in every row, from the first call on, the rows
\* taken from never-overwritten queue slots included (the targets handed in
\* have strictly positive spread).
C22_QueueSpreadPositive ==
    call.status = "returned" =>
        \A i \in DOMAIN call.merged_scale : call.merged_scale[i] > 0

-----------------------------------------------------------------------------
\* Claims about the first decode_target call and the target's spread (checked
\* under SpecMomentum).

\* The last operation was the first decode_target call after construction,
\* with no optimizer step before it
FirstDecodeTarget ==
    /\ ev.op = "decode_target"
    /\ ev.n_ema0 = 0
    /\ n_steps = 0

RECURSIVE EvalStd(_)
EvalStd(ops) ==
    IF Len(ops) = 1 THEN Num(1)
    ELSE LET v == EvalStd(SubSeq(ops, 1, Len(ops) - 1))
             op == ops[Len(ops)]
         IN  IF op = "exp" THEN ExpV(v.c.n) ELSE SquareV(v)

\* C29: decode_target of the BYOL head returns a distribution whose standard
\* deviation equals the one the underlying momentum target head produces for
\* the same input; only the mean is changed, by normalization.
C29_ByolTargetSpread ==
    /\ head = "BYOL"
    /\ ev.op = "decode_target"
    /\ out_tgt.status = "returned"
    => LET underlying == MomentumDecodeTargetOut(ev.target0, target_decoder,
                                                 out_tgt.z, requires_grad)
       IN  /\ EvalStd(out_tgt.std) = EvalStd(underlying.std)
           /\ out_tgt.params = underlying.params

-----------------------------------------------------------------------------
\* Claims about the construction of RepresentationLearner (checked under
\* SpecConstructor).

ConstructorLeft == ctor_pc \in {"constructed", "raised"}

\* C26: constructing RepresentationLearner never mutates a caller-supplied
\* kwargs dict: afterwards batch_extender_kwargs (in particular with the queue
\* extender selected) holds exactly the keys and values it held before.
C26_CallerDictUnchanged ==
    ConstructorLeft /\ batch_extender_kwargs = "caller"
    => ctor_heap["caller"] = caller_dict0

\* C30: constructing RepresentationLearner with QueueBatchExtender and a
\* caller-supplied queue_size succeeds (every keyword passed to the extender's
\* constructor is one it accepts) and yields a queue of capacity queue_size,
\* of dimension projection_dim (representation_dim when projection_dim is not
\* given) and with write cursor 0.
C30_QueueConstruction ==
    /\ ConstructorLeft
    /\ batch_extender = "QueueBatchExtender"
    /\ batch_extender_kwargs = "caller"
    /\ "queue_size" \in DOMAIN caller_dict0
    => /\ ctor_pc = "constructed"
       /\ ctor_error = "none"
       /\ self_batch_extender.class = "QueueBatchExtender"
       /\ self_batch_extender.queue_size = caller_dict0["queue_size"]
       /\ self_batch_extender.representation_dim =
              ProjectionDim(projection_dim, representation_dim)
       /\ self_batch_extender.queue_ptr = 0

-----------------------------------------------------------------------------
\* Claims about the spread of decoded distributions (checked under
\* SpecDecoders).

\* The last call returned a distribution whose spread the decoder computed
DecoderMadeSpread ==
    /\ dec_call.op \in {"decode_context", "decode_target"}
    /\ dec_call.result.outcome = "returned"
    /\ dec_call.result.stddev.form \in {"exp", "const", "linear"}

\* C23: every distribution returned by a decoder stage has strictly positive
\* spread, for every input, every parameter value and every accepted
\* constructor argument: a learned spread passes through an exponential and a
\* constant spread is strictly positive.
C23_DecoderSpreadPositive ==
    DecoderMadeSpread
    => /\ Positive(dec_call.result.stddev.val)
       /\ dec_call.result.stddev.form \in {"exp", "const"}

\* C24: the projection head's spread is the constant all-ones vector when
\* learn_scale = False, and the exponential of a learned linear map when the
\* scale is learned.
C24_ProjectionHeadSpread ==
    /\ decoder_class = "ProjectionHead"
    /\ DecoderMadeSpread
    => IF learn_scale
       THEN /\ dec_call.result.stddev.form = "exp"
            /\ \E lin \in LinearOutputs :
                   dec_call.result.stddev.val = ExpV(lin)
       ELSE dec_call.result.stddev.val = Num(1)

=============================================================================
